---- MODULE Spec2Model ----
(***************************************************************************)
(* Model of 3DErrorAnalysis.py: calculate_antenna_mse, the comparison of   *)
(* an interpolated (reconstruction) antenna pattern with the original      *)
(* (reference) one.  The function is a straight-line pipeline; pc is its   *)
(* position, the other variables are its locals and what it has printed.   *)
(*                                                                         *)
(* A column name is a sequence of tokens; the tokens " " and "\t" are      *)
(* whitespace, so that str.strip() is a computation and not the identity.  *)
(* A table (DataFrame) is [columns, rows]: rows[i][j] is the value of row  *)
(* i in the column named columns[j].  Values are integers (dB values and   *)
(* degrees of the CSV files, without their fractional part).               *)
(***************************************************************************)
EXTENDS Integers, Sequences, FiniteSets, TLC

VARIABLES pc, file_interp, file_orig, df_interp, df_orig, merged,
          summary, top, grid_interp, grid_orig, grid_error, raised_at, report, out

vars == <<pc, file_interp, file_orig, df_interp, df_orig, merged,
          summary, top, grid_interp, grid_orig, grid_error, raised_at, report, out>>

-----------------------------------------------------------------------------
(* Bounds of the model *)

MaxRows == 2
MaxVal == 1
MaxPad == 1
Extra == 1
SqrtScale == 10

(* Program constants *)

TopN == 5

-----------------------------------------------------------------------------
(* Column names *)

PHI == <<"Phi", "[deg]">>
THETA == <<"Theta", "[deg]">>
target_col == <<"dB10normalize", "(GainTotal)">>
req_cols == <<PHI, THETA, target_col>>
on_cols == <<PHI, THETA>>
DIFF == <<"diff">>
SQ_ERROR == <<"sq_error">>
ABS_ERROR == <<"abs_error">>
col_orig == target_col \o <<"_orig">>
col_interp == target_col \o <<"_interp">>

Whitespace == {" ", "\t"}

RECURSIVE LStrip(_)
LStrip(c) ==
  IF c # <<>> /\ Head(c) \in Whitespace THEN LStrip(Tail(c)) ELSE c

RECURSIVE RStrip(_)
RStrip(c) ==
  IF c # <<>> /\ c[Len(c)] \in Whitespace
  THEN RStrip(SubSeq(c, 1, Len(c) - 1))
  ELSE c

Strip(c) == RStrip(LStrip(c))

StripColumns(df) ==
  [df EXCEPT !.columns = [j \in 1..Len(df.columns) |-> Strip(df.columns[j])]]

-----------------------------------------------------------------------------
(* Sequences and tables *)

Range(s) == {s[i] : i \in 1..Len(s)}

RECURSIVE SumSeq(_)
SumSeq(s) == IF s = <<>> THEN 0 ELSE Head(s) + SumSeq(Tail(s))

NoTable == [columns |-> <<>>, rows |-> <<>>]

HasCol(df, c) == \E j \in 1..Len(df.columns) : df.columns[j] = c

ColIdx(df, c) ==
  CHOOSE j \in 1..Len(df.columns) :
    /\ df.columns[j] = c
    /\ \A k \in 1..(j - 1) : df.columns[k] # c

Column(df, c) == [i \in 1..Len(df.rows) |-> df.rows[i][ColIdx(df, c)]]

KeyOf(df, i) == <<df.rows[i][ColIdx(df, PHI)], df.rows[i][ColIdx(df, THETA)]>>

AddColumn(df, c, vals) ==
  [columns |-> Append(df.columns, c),
   rows |-> [i \in 1..Len(df.rows) |-> Append(df.rows[i], vals[i])]]

-----------------------------------------------------------------------------
(* pd.merge(df_orig, df_interp, on=[Phi, Theta], suffixes): an inner join. *)
(* The left table's columns come first, then the right table's columns     *)
(* other than the keys; a name the two sides share outside the keys gets   *)
(* the side's suffix.  Rows follow the order of the left table, and for    *)
(* one left row the order of the matching right rows.                      *)

NonKeyIdx(df) ==
  SelectSeq([j \in 1..Len(df.columns) |-> j],
            LAMBDA j : df.columns[j] \notin Range(on_cols))

NonKeyCols(df) == {df.columns[j] : j \in Range(NonKeyIdx(df))}

Suffixed(c, other, suffix) ==
  IF c \in Range(on_cols) THEN c
  ELSE IF c \in NonKeyCols(other) THEN c \o <<suffix>> ELSE c

MergeColumns(left, right) ==
  [j \in 1..Len(left.columns) |-> Suffixed(left.columns[j], right, "_orig")]
  \o [k \in 1..Len(NonKeyIdx(right)) |->
        Suffixed(right.columns[NonKeyIdx(right)[k]], left, "_interp")]

JoinRow(left, right, i, j) ==
  left.rows[i]
  \o [k \in 1..Len(NonKeyIdx(right)) |-> right.rows[j][NonKeyIdx(right)[k]]]

(* a join on Phi alone *)
KeysMatchPhiOnly(left, right, i, j) == KeyOf(left, i)[1] = KeyOf(right, j)[1]

KeysMatch(left, right, i, j) == KeyOf(left, i) = KeyOf(right, j)

RECURSIVE MatchRight(_, _, _, _)
MatchRight(left, right, i, j) ==
  IF j > Len(right.rows) THEN <<>>
  ELSE (IF KeysMatch(left, right, i, j)
        THEN <<JoinRow(left, right, i, j)>> ELSE <<>>)
       \o MatchRight(left, right, i, j + 1)

RECURSIVE MergeFrom(_, _, _)
MergeFrom(left, right, i) ==
  IF i > Len(left.rows) THEN <<>>
  ELSE MatchRight(left, right, i, 1) \o MergeFrom(left, right, i + 1)

Merge(left, right) ==
  [columns |-> MergeColumns(left, right), rows |-> MergeFrom(left, right, 1)]

-----------------------------------------------------------------------------
(* The derived columns and the summary.  A mean is the rational num/den;   *)
(* mse ** 0.5 is a fixed-point square root, rounded down to a multiple of  *)
(* 1/(den * SqrtScale), standing for the floating-point root.              *)

Abs(x) == IF x < 0 THEN -x ELSE x

(* the difference taken the other way round *)
DiffReversed(df) ==
  [i \in 1..Len(df.rows) |-> Column(df, col_orig)[i] - Column(df, col_interp)[i]]

Diff(df) ==
  [i \in 1..Len(df.rows) |-> Column(df, col_interp)[i] - Column(df, col_orig)[i]]

SqError(df) == [i \in 1..Len(df.rows) |-> Column(df, DIFF)[i] * Column(df, DIFF)[i]]

AbsError(df) == [i \in 1..Len(df.rows) |-> Abs(Column(df, DIFF)[i])]

(* the mean over n - 1 *)
MeanSample(s) == [num |-> SumSeq(s), den |-> Len(s) - 1]

Mean(s) == [num |-> SumSeq(s), den |-> Len(s)]

RECURSIVE ISqrtFrom(_, _)
ISqrtFrom(n, r) == IF (r + 1) * (r + 1) > n THEN r ELSE ISqrtFrom(n, r + 1)

Sqrt(q) ==
  [num |-> ISqrtFrom(q.num * q.den * SqrtScale * SqrtScale, 0),
   den |-> q.den * SqrtScale]

BiasDesc(q) == IF q.num > 0 THEN "Optimistic" ELSE "Conservative"

Summarize(df) ==
  [mse |-> Mean(Column(df, SQ_ERROR)),
   rmse |-> Sqrt(Mean(Column(df, SQ_ERROR))),
   mean_bias |-> Mean(Column(df, DIFF)),
   bias_desc |-> BiasDesc(Mean(Column(df, DIFF)))]

-----------------------------------------------------------------------------
(* merged.nlargest(5, 'sq_error')[[...]]: the n largest, largest first;    *)
(* keep='first' takes the earliest of equal values first.  The result      *)
(* keeps each row's index label (its position in merged).                  *)

(* keep='last': of equal values the latest first *)
LastMax(vals, idx) ==
  CHOOSE k \in 1..Len(idx) :
    /\ \A m \in 1..Len(idx) : vals[idx[m]] <= vals[idx[k]]
    /\ \A m \in (k + 1)..Len(idx) : vals[idx[m]] < vals[idx[k]]

FirstMax(vals, idx) ==
  CHOOSE k \in 1..Len(idx) :
    /\ \A m \in 1..Len(idx) : vals[idx[m]] <= vals[idx[k]]
    /\ \A m \in 1..(k - 1) : vals[idx[m]] < vals[idx[k]]

RECURSIVE NLargestIdx(_, _, _)
NLargestIdx(vals, idx, n) ==
  IF n = 0 \/ idx = <<>> THEN <<>>
  ELSE LET k == FirstMax(vals, idx)
       IN <<idx[k]>>
          \o NLargestIdx(vals,
                         SubSeq(idx, 1, k - 1) \o SubSeq(idx, k + 1, Len(idx)),
                         n - 1)

ReportCols == <<PHI, THETA, col_orig, col_interp, DIFF>>

NLargest(df, n, c) ==
  LET idx == NLargestIdx(Column(df, c), [i \in 1..Len(df.rows) |-> i], n)
  IN [k \in 1..Len(idx) |->
       [label |-> idx[k],
        row |-> [j \in 1..Len(ReportCols) |-> Column(df, ReportCols[j])[idx[k]]]]]

-----------------------------------------------------------------------------
(* Grids.  A grid (the pivoted DataFrame) is [index, columns, values]:     *)
(* values[r][c] is the cell of row label index[r] and column label         *)
(* columns[c].  A cell is a number or NaN.                                 *)

NaN == [nan |-> TRUE, val |-> 0]
Num(v) == [nan |-> FALSE, val |-> v]

RECURSIVE SortSet(_)
SortSet(S) ==
  IF S = {} THEN <<>>
  ELSE LET m == CHOOSE x \in S : \A y \in S : x <= y
       IN <<m>> \o SortSet(S \ {m})

HasDuplicateKeys(df) ==
  \E i, j \in 1..Len(df.rows) : i < j /\ KeyOf(df, i) = KeyOf(df, j)

(* a key without a row filled with 0 *)
CellZeroFill(df, a, b, c) ==
  IF \E i \in 1..Len(df.rows) : KeyOf(df, i) = <<a, b>>
  THEN Num(Column(df, c)[CHOOSE i \in 1..Len(df.rows) : KeyOf(df, i) = <<a, b>>])
  ELSE Num(0)

Cell(df, a, b, c) ==
  IF \E i \in 1..Len(df.rows) : KeyOf(df, i) = <<a, b>>
  THEN Num(Column(df, c)[CHOOSE i \in 1..Len(df.rows) : KeyOf(df, i) = <<a, b>>])
  ELSE NaN

(* index and columns exchanged *)
PivotTransposed(df, c) ==
  LET idx == SortSet(Range(Column(df, THETA)))
      cols == SortSet(Range(Column(df, PHI)))
  IN [index |-> idx,
      columns |-> cols,
      values |-> [r \in 1..Len(idx) |->
                   [k \in 1..Len(cols) |-> Cell(df, cols[k], idx[r], c)]]]

Pivot(df, c) ==
  LET idx == SortSet(Range(Column(df, PHI)))
      cols == SortSet(Range(Column(df, THETA)))
  IN [index |-> idx,
      columns |-> cols,
      values |-> [r \in 1..Len(idx) |->
                   [k \in 1..Len(cols) |-> Cell(df, idx[r], cols[k], c)]]]

Pos(s, x) == CHOOSE i \in 1..Len(s) : s[i] = x

SortIndexRows(g) ==
  LET idx == SortSet(Range(g.index))
  IN [g EXCEPT !.index = idx,
               !.values = [r \in 1..Len(idx) |-> g.values[Pos(g.index, idx[r])]]]

SortIndexCols(g) ==
  LET cols == SortSet(Range(g.columns))
  IN [g EXCEPT !.columns = cols,
               !.values = [r \in 1..Len(g.index) |->
                            [k \in 1..Len(cols) |->
                              g.values[r][Pos(g.columns, cols[k])]]]]

ReindexLike(g, other) ==
  [index |-> other.index,
   columns |-> other.columns,
   values |-> [r \in 1..Len(other.index) |->
                [k \in 1..Len(other.columns) |->
                  IF other.index[r] \in Range(g.index)
                     /\ other.columns[k] \in Range(g.columns)
                  THEN g.values[Pos(g.index, other.index[r])]
                               [Pos(g.columns, other.columns[k])]
                  ELSE NaN]]]

-----------------------------------------------------------------------------
(* The input files.  A file is missing, unreadable as CSV, or holds a      *)
(* table.  The inputs are drawn from five families:                        *)
(*   InitKeys     any two key sequences of up to MaxRows rows (duplicate   *)
(*                keys included), values set by the row's position;        *)
(*   InitValues   the same keys in both files, in opposite orders, any     *)
(*                values of 0..MaxVal;                                     *)
(*   InitLong     TopN to TopN + Extra rows with distinct keys;            *)
(*   InitHeaders  one row, any header: padded, misspelt or missing names;  *)
(*   InitFiles    missing and unreadable files.                            *)

Coords == {0, 90}
Keys == Coords \X Coords
KeyList == <<(<<0, 0>>), (<<90, 90>>), (<<0, 90>>), (<<90, 0>>)>>
Vals == 0..MaxVal
LongVals == {0, 1, 3}
LongKey(i) == <<30 * ((i - 1) \div 2), 90 * ((i - 1) % 2)>>

SeqsUpTo(S, n) == UNION {[1..k -> S] : k \in 0..n}

Reverse(s) == [i \in 1..Len(s) |-> s[Len(s) + 1 - i]]

File(t) == [exists |-> TRUE, parsable |-> TRUE, table |-> t]
MissingFile == [exists |-> FALSE, parsable |-> FALSE, table |-> NoTable]
BadFile == [exists |-> TRUE, parsable |-> FALSE, table |-> NoTable]

StdTable(rows) == [columns |-> req_cols, rows |-> rows]

RECURSIVE Blanks(_, _)
Blanks(n, w) == IF n = 0 THEN <<>> ELSE <<w>> \o Blanks(n - 1, w)

Pad(l, c, r) == Blanks(l, " ") \o c \o Blanks(r, "\t")

Inner(c) == <<c[1], " ", c[2]>>

(* what a header may hold in the place of the column named c: nothing,    *)
(* the name, or the name with a blank inside it                            *)
Variants(c) == {<<>>, <<c>>, <<Inner(c)>>}

(* the names of a header as the file spells them, with l blanks before    *)
(* and r tabs after each                                                   *)
PadAll(h, l, r) ==
  [k \in 1..Len(h) |-> IF h[k] = <<>> THEN <<>> ELSE <<Pad(l, h[k][1], r)>>]

Headers ==
  {PadAll(<<h1, h2, h3>>, l, r) :
     h1 \in Variants(PHI), h2 \in Variants(THETA), h3 \in Variants(target_col),
     l \in 0..MaxPad, r \in 0..MaxPad}

StdHeader == <<(<<PHI>>), (<<THETA>>), (<<target_col>>)>>
NoTargetHeader == <<(<<PHI>>), (<<THETA>>), <<>>>>

Present(h, x) == IF h = <<>> THEN <<>> ELSE <<x>>

HeaderTable(h, row, rev) ==
  LET cols == h[1] \o h[2] \o h[3]
      r == Present(h[1], row[1]) \o Present(h[2], row[2]) \o Present(h[3], row[3])
  IN IF rev THEN [columns |-> Reverse(cols), rows |-> <<Reverse(r)>>]
     ELSE [columns |-> cols, rows |-> <<r>>]

InitKeys ==
  \E ko \in SeqsUpTo(Keys, MaxRows), ki \in SeqsUpTo(Keys, MaxRows) :
    /\ file_orig = File(StdTable([i \in 1..Len(ko) |-> <<ko[i][1], ko[i][2], i>>]))
    /\ file_interp = File(StdTable([j \in 1..Len(ki) |-> <<ki[j][1], ki[j][2], 2>>]))

InitValues ==
  \E m \in 1..MaxRows :
    \E vo \in [1..m -> Vals], vi \in [1..m -> Vals] :
      /\ file_orig =
           File(StdTable([i \in 1..m |-> <<KeyList[i][1], KeyList[i][2], vo[i]>>]))
      /\ file_interp =
           File(StdTable(Reverse(
             [i \in 1..m |-> <<KeyList[i][1], KeyList[i][2], vi[i]>>])))

InitLong ==
  \E n \in TopN..(TopN + Extra) :
    \E vo \in [1..n -> LongVals] :
      /\ file_orig =
           File(StdTable([i \in 1..n |-> <<LongKey(i)[1], LongKey(i)[2], vo[i]>>]))
      /\ file_interp =
           File(StdTable(Reverse(
             [i \in 1..n |-> <<LongKey(i)[1], LongKey(i)[2], 1>>])))

InitHeaders ==
  \E hi \in Headers, ho \in Headers, rev \in BOOLEAN :
    /\ hi = StdHeader \/ ho \in {StdHeader, NoTargetHeader}
    /\ file_interp = File(HeaderTable(hi, <<0, 0, 12>>, rev))
    /\ file_orig = File(HeaderTable(ho, <<0, 0, 10>>, FALSE))

InitFiles ==
  LET Some == {MissingFile, BadFile, File(StdTable(<<(<<0, 0, 10>>)>>))}
  IN file_interp \in Some /\ file_orig \in Some

Init ==
  /\ pc = "start"
  /\ InitKeys \/ InitValues \/ InitLong \/ InitHeaders \/ InitFiles
  /\ df_interp = NoTable
  /\ df_orig = NoTable
  /\ merged = NoTable
  /\ summary = <<>>
  /\ top = <<>>
  /\ grid_interp = <<>>
  /\ grid_orig = <<>>
  /\ grid_error = <<>>
  /\ raised_at = "none"
  /\ report = <<>>
  /\ out = <<>>

-----------------------------------------------------------------------------
(* calculate_antenna_mse, step by step.  out is what has been written to   *)
(* the console or shown, in order; report is the content of the            *)
(* missing-columns message.                                                *)

Say(msgs) == out \o msgs

(* pd.read_csv of the two files, the interpolated one first *)
ReadCsv ==
  /\ pc = "start"
  /\ \/ /\ \/ ~file_interp.exists
           \/ file_interp.parsable /\ ~file_orig.exists
        /\ pc' = "except_FileNotFoundError"
        /\ raised_at' = "read_csv"
        /\ out' = Say(<<"loading", "file_not_found">>)
        /\ UNCHANGED <<df_interp, df_orig>>
     \/ /\ \/ file_interp.exists /\ ~file_interp.parsable
           \/ file_interp.parsable /\ file_orig.exists /\ ~file_orig.parsable
        /\ pc' = "except_Exception"
        /\ raised_at' = "read_csv"
        /\ out' = Say(<<"loading", "unexpected_error">>)
        /\ UNCHANGED <<df_interp, df_orig>>
     \/ /\ file_interp.parsable /\ file_orig.parsable
        /\ df_interp' = file_interp.table
        /\ df_orig' = file_orig.table
        /\ pc' = "strip"
        /\ out' = Say(<<"loading">>)
        /\ UNCHANGED raised_at
  /\ UNCHANGED <<file_interp, file_orig, merged, summary, top,
                 grid_interp, grid_orig, grid_error, report>>

(* df.columns = [c.strip() for c in df.columns], on both tables *)
StripNames ==
  /\ pc = "strip"
  /\ df_interp' = StripColumns(df_interp)
  /\ df_orig' = StripColumns(df_orig)
  /\ pc' = "validate"
  /\ UNCHANGED <<file_interp, file_orig, merged, summary, top,
                 grid_interp, grid_orig, grid_error, raised_at, report, out>>

LacksColumns(df) == ~(\A k \in 1..Len(req_cols) : HasCol(df, req_cols[k]))

MissingReport(name, df) ==
  [name |-> name, columns |-> req_cols, available |-> df.columns]

(* the loop over the two tables: the first that lacks a column is reported *)
Validate ==
  /\ pc = "validate"
  /\ \/ /\ LacksColumns(df_interp)
        /\ report' = <<MissingReport("Interpolated", df_interp)>>
        /\ out' = Say(<<"missing_columns">>)
        /\ pc' = "return_missing"
     \/ /\ ~LacksColumns(df_interp) /\ LacksColumns(df_orig)
        /\ report' = <<MissingReport("Original", df_orig)>>
        /\ out' = Say(<<"missing_columns">>)
        /\ pc' = "return_missing"
     \/ /\ ~LacksColumns(df_interp) /\ ~LacksColumns(df_orig)
        /\ pc' = "merge"
        /\ UNCHANGED <<report, out>>
  /\ UNCHANGED <<file_interp, file_orig, df_interp, df_orig, merged, summary,
                 top, grid_interp, grid_orig, grid_error, raised_at>>

(* a test of the columns instead of the rows *)
IsEmptyOfColumns(df) == df.columns = <<>>

(* DataFrame.empty *)
IsEmpty(df) == df.rows = <<>> \/ df.columns = <<>>

(* the message without the return *)
AlignNoReturn ==
  /\ pc = "merge"
  /\ merged' = Merge(df_orig, df_interp)
  /\ \/ /\ IsEmpty(merged')
        /\ out' = Say(<<"no_matching_coordinates">>)
     \/ /\ ~IsEmpty(merged')
        /\ out' = Say(<<"aligned">>)
  /\ pc' = "derive"
  /\ UNCHANGED <<file_interp, file_orig, df_interp, df_orig, summary, top,
                 grid_interp, grid_orig, grid_error, raised_at, report>>

(* the merge and the merged.empty test *)
Align ==
  /\ pc = "merge"
  /\ merged' = Merge(df_orig, df_interp)
  /\ \/ /\ IsEmpty(merged')
        /\ out' = Say(<<"no_matching_coordinates">>)
        /\ pc' = "return_empty"
     \/ /\ ~IsEmpty(merged')
        /\ out' = Say(<<"aligned">>)
        /\ pc' = "derive"
  /\ UNCHANGED <<file_interp, file_orig, df_interp, df_orig, summary, top,
                 grid_interp, grid_orig, grid_error, raised_at, report>>

(* the difference written over the interpolated values as well *)
WithErrorsOverValues(df) ==
  LET j == ColIdx(df, col_interp)
      m0 == [df EXCEPT !.rows = [i \in 1..Len(df.rows) |->
                                  [df.rows[i] EXCEPT ![j] = Diff(df)[i]]]]
      m1 == AddColumn(m0, DIFF, Diff(df))
      m2 == AddColumn(m1, SQ_ERROR, SqError(m1))
  IN AddColumn(m2, ABS_ERROR, AbsError(m2))

(* merged['diff'], merged['sq_error'], merged['abs_error'] *)
WithErrors(df) ==
  LET m1 == AddColumn(df, DIFF, Diff(df))
      m2 == AddColumn(m1, SQ_ERROR, SqError(m1))
  IN AddColumn(m2, ABS_ERROR, AbsError(m2))

Derive ==
  /\ pc = "derive"
  /\ merged' = WithErrors(merged)
  /\ pc' = "summarize"
  /\ UNCHANGED <<file_interp, file_orig, df_interp, df_orig, summary, top,
                 grid_interp, grid_orig, grid_error, raised_at, report, out>>

(* mse, rmse, mean_bias and their report *)
Summary ==
  /\ pc = "summarize"
  /\ summary' = <<Summarize(merged)>>
  /\ out' = Say(<<"summary">>)
  /\ pc' = "top"
  /\ UNCHANGED <<file_interp, file_orig, df_interp, df_orig, merged, top,
                 grid_interp, grid_orig, grid_error, raised_at, report>>

(* the five largest differences *)
TopErrors ==
  /\ pc = "top"
  /\ top' = <<NLargest(merged, TopN, SQ_ERROR)>>
  /\ out' = Say(<<"top_errors">>)
  /\ pc' = "pivot"
  /\ UNCHANGED <<file_interp, file_orig, df_interp, df_orig, merged, summary,
                 grid_interp, grid_orig, grid_error, raised_at, report>>

(* the three pivots; DataFrame.pivot raises ValueError on a repeated key *)
PivotGrids ==
  /\ pc = "pivot"
  /\ \/ /\ HasDuplicateKeys(merged)
        /\ pc' = "except_Exception"
        /\ raised_at' = "pivot"
        /\ out' = Say(<<"preparing", "unexpected_error">>)
        /\ UNCHANGED <<grid_interp, grid_orig, grid_error>>
     \/ /\ ~HasDuplicateKeys(merged)
        /\ grid_interp' = <<Pivot(merged, col_interp)>>
        /\ grid_orig' = <<Pivot(merged, col_orig)>>
        /\ grid_error' = <<Pivot(merged, ABS_ERROR)>>
        /\ pc' = "sort"
        /\ out' = Say(<<"preparing">>)
        /\ UNCHANGED raised_at
  /\ UNCHANGED <<file_interp, file_orig, df_interp, df_orig, merged, summary,
                 top, report>>

(* grid_interp.sort_index(axis=0, inplace=True), then axis=1 *)
SortGrid ==
  /\ pc = "sort"
  /\ grid_interp' = <<SortIndexCols(SortIndexRows(grid_interp[1]))>>
  /\ pc' = "reindex"
  /\ UNCHANGED <<file_interp, file_orig, df_interp, df_orig, merged, summary,
                 top, grid_orig, grid_error, raised_at, report, out>>

(* grid_orig and grid_error reindexed like grid_interp *)
Reindex ==
  /\ pc = "reindex"
  /\ grid_orig' = <<ReindexLike(grid_orig[1], grid_interp[1])>>
  /\ grid_error' = <<ReindexLike(grid_error[1], grid_interp[1])>>
  /\ pc' = "viewer"
  /\ UNCHANGED <<file_interp, file_orig, df_interp, df_orig, merged, summary,
                 top, grid_interp, raised_at, report, out>>

(* AntennaComparisonViewer(...): tk.Tk() raises TclError without a display *)
CreateViewer ==
  /\ pc = "viewer"
  /\ \/ /\ pc' = "show"
        /\ UNCHANGED <<raised_at, out>>
     \/ /\ pc' = "except_Exception"
        /\ raised_at' = "viewer"
        /\ out' = Say(<<"unexpected_error">>)
  /\ UNCHANGED <<file_interp, file_orig, df_interp, df_orig, merged, summary,
                 top, grid_interp, grid_orig, grid_error, report>>

(* app.show(): the window with the three heatmaps and the statistics *)
Show ==
  /\ pc = "show"
  /\ out' = Say(<<"window">>)
  /\ pc' = "done"
  /\ UNCHANGED <<file_interp, file_orig, df_interp, df_orig, merged, summary,
                 top, grid_interp, grid_orig, grid_error, raised_at, report>>

Next ==
  \/ ReadCsv
  \/ StripNames
  \/ Validate
  \/ Align
  \/ Derive
  \/ Summary
  \/ TopErrors
  \/ PivotGrids
  \/ SortGrid
  \/ Reindex
  \/ CreateViewer
  \/ Show

Spec == Init /\ [][Next]_vars

-----------------------------------------------------------------------------
(* Where the run is *)

AfterAlign ==
  \/ pc \in {"return_empty", "derive", "summarize", "top", "pivot", "sort",
              "reindex", "viewer", "show", "done"}
  \/ raised_at \in {"pivot", "viewer"}

AfterDerive == AfterAlign /\ pc \notin {"return_empty", "derive"}

GridsReady == pc \in {"viewer", "show", "done"} \/ raised_at = "viewer"

At(df, i, c) == df.rows[i][ColIdx(df, c)]

Said(msg) == msg \in Range(out)

KeySet(df) == {KeyOf(df, i) : i \in 1..Len(df.rows)}

(* each key once: as many keys as rows *)
UniqueKeys(df) == Cardinality(KeySet(df)) = Len(df.rows)

SharedKeys == KeySet(df_orig) \cap KeySet(df_interp)

-----------------------------------------------------------------------------
(* C1: when each key occurs at most once in each input table and the join  *)
(* is not empty, the joined table has exactly one row per key of the       *)
(* intersection of the two key sets: as many rows as the intersection has  *)
(* keys, and no row for a key that only one table holds.                   *)
C1_JoinIsKeyIntersection ==
  (AfterAlign /\ Said("aligned") /\ UniqueKeys(df_orig) /\ UniqueKeys(df_interp))
    => /\ Len(merged.rows) = Cardinality(SharedKeys)
       /\ KeySet(merged) = SharedKeys
       /\ UniqueKeys(merged)

(* the second scenario of the specification: two rows against two rows,   *)
(* one key shared, the other key of each table dropped                    *)
C1_Witness ==
  /\ AfterAlign /\ Said("aligned")
  /\ UniqueKeys(df_orig) /\ UniqueKeys(df_interp)
  /\ Len(df_orig.rows) = 2 /\ Len(df_interp.rows) = 2
  /\ Len(merged.rows) = 1
  /\ \E k \in KeySet(df_orig) \ KeySet(df_interp),
        l \in KeySet(df_interp) \ KeySet(df_orig) : k[2] = l[2] /\ k[1] # l[1]

-----------------------------------------------------------------------------
(* C2: the empty-alignment error is reported exactly when the two          *)
(* validated tables share no key; the run then stops there with no         *)
(* difference, summary, ranking or grid computed; with a shared key the    *)
(* error is not reported and the run goes on to the metrics.               *)
C2_EmptyAlignmentIffDisjoint ==
  AfterAlign
    => /\ Said("no_matching_coordinates") <=> SharedKeys = {}
       /\ pc = "return_empty" <=> SharedKeys = {}
       /\ SharedKeys # {} => Said("aligned")
       /\ pc = "return_empty"
            => /\ ~HasCol(merged, DIFF)
               /\ summary = <<>> /\ top = <<>>
               /\ grid_interp = <<>> /\ grid_orig = <<>> /\ grid_error = <<>>
               /\ ~Said("summary") /\ ~Said("top_errors")
               /\ ~ENABLED Next

C2_Witness ==
  /\ pc = "return_empty"
  /\ df_orig.rows # <<>> /\ df_interp.rows # <<>>
  /\ \E k \in KeySet(df_orig), l \in KeySet(df_interp) : k[1] = l[1]

-----------------------------------------------------------------------------
(* C3: validation fails exactly when a required field is absent from a     *)
(* table (names compared after trimming), the report names the offending   *)
(* table and lists the fields missing from it, and the join is not         *)
(* attempted.                                                              *)
MissingFrom(df) ==
  SelectSeq(req_cols, LAMBDA c : \A j \in 1..Len(df.columns) : Strip(df.columns[j]) # c)

C3_MissingFieldsReport ==
  pc \in {"return_missing", "merge"}
    => /\ pc = "return_missing"
            <=> (MissingFrom(file_interp.table) # <<>>
                 \/ MissingFrom(file_orig.table) # <<>>)
       /\ pc = "return_missing"
            => /\ merged = NoTable
               /\ \E f \in {[name |-> "Interpolated", file |-> file_interp],
                              [name |-> "Original", file |-> file_orig]} :
                    /\ report[1].name = f.name
                    /\ MissingFrom(f.file.table) # <<>>
                    /\ report[1].columns = MissingFrom(f.file.table)

-----------------------------------------------------------------------------
(* C4: once the grids are built, the three grids have the same shape,      *)
(* (distinct Phi values of the aligned rows) x (distinct Theta values of   *)
(* the aligned rows), and the key of every aligned row is a cell of the    *)
(* reconstruction grid that holds a number; one aligned row gives 1 x 1.   *)
Shape(g) == <<Len(g.index), Len(g.columns)>>

WellShaped(g) ==
  /\ Len(g.values) = Len(g.index)
  /\ \A r \in 1..Len(g.values) : Len(g.values[r]) = Len(g.columns)

PhiValues == {KeyOf(merged, i)[1] : i \in 1..Len(merged.rows)}
ThetaValues == {KeyOf(merged, i)[2] : i \in 1..Len(merged.rows)}

C4_GridShape ==
  (GridsReady /\ merged.rows # <<>> /\ UniqueKeys(merged))
    => /\ Shape(grid_interp[1]) = <<Cardinality(PhiValues), Cardinality(ThetaValues)>>
       /\ Shape(grid_orig[1]) = Shape(grid_interp[1])
       /\ Shape(grid_error[1]) = Shape(grid_interp[1])
       /\ WellShaped(grid_interp[1])
       /\ WellShaped(grid_orig[1])
       /\ WellShaped(grid_error[1])
       /\ \A i \in 1..Len(merged.rows) :
            \E r \in 1..Len(grid_interp[1].index),
               k \in 1..Len(grid_interp[1].columns) :
              /\ grid_interp[1].index[r] = KeyOf(merged, i)[1]
              /\ grid_interp[1].columns[k] = KeyOf(merged, i)[2]
              /\ ~grid_interp[1].values[r][k].nan
       /\ Len(merged.rows) = 1 => Shape(grid_interp[1]) = <<1, 1>>

(* two aligned rows of one Phi value: a grid of one row and two columns    *)
C4_Witness ==
  /\ GridsReady
  /\ UniqueKeys(merged)
  /\ Len(merged.rows) = 2
  /\ Cardinality(PhiValues) = 1
  /\ Shape(grid_error[1]) = <<1, 2>>

-----------------------------------------------------------------------------
(* C5: the ranking holds min(TopN, number of aligned rows) rows, those of  *)
(* the largest squared error, largest first; of rows with equal squared    *)
(* error the earlier row of the aligned table is taken first and listed    *)
(* first.                                                                  *)
Min(a, b) == IF a < b THEN a ELSE b

SqOf(i) == At(merged, i, SQ_ERROR)

Ranked == {top[1][k].label : k \in 1..Len(top[1])}

C5_TopErrors ==
  top # <<>>
    => /\ Len(top[1]) = Min(TopN, Len(merged.rows))
       /\ Ranked \subseteq 1..Len(merged.rows)
       /\ Cardinality(Ranked) = Len(top[1])
       /\ \A k \in 1..(Len(top[1]) - 1) :
            \/ SqOf(top[1][k].label) > SqOf(top[1][k + 1].label)
            \/ /\ SqOf(top[1][k].label) = SqOf(top[1][k + 1].label)
               /\ top[1][k].label < top[1][k + 1].label
       /\ \A i \in (1..Len(merged.rows)) \ Ranked : \A j \in Ranked :
            \/ SqOf(i) < SqOf(j)
            \/ SqOf(i) = SqOf(j) /\ j < i
       /\ \A k \in 1..Len(top[1]) :
            top[1][k].row =
              <<KeyOf(merged, top[1][k].label)[1],
                KeyOf(merged, top[1][k].label)[2],
                At(merged, top[1][k].label, col_orig),
                At(merged, top[1][k].label, col_interp),
                At(merged, top[1][k].label, DIFF)>>

(* more rows than TopN, and the last place of the ranking decided by a tie *)
C5_Witness ==
  /\ top # <<>>
  /\ Len(merged.rows) > TopN
  /\ Len(top[1]) = TopN
  /\ \E i \in (1..Len(merged.rows)) \ Ranked :
       SqOf(i) = SqOf(top[1][TopN].label) /\ SqOf(i) > 0
  /\ \E k \in 1..(TopN - 1) :
       SqOf(top[1][k].label) = SqOf(top[1][k + 1].label)

-----------------------------------------------------------------------------
(* C6: on every aligned row, diff is the interpolated value minus the      *)
(* original value of the row's key, sq_error is its square and abs_error   *)
(* its absolute value; every row holds all of them.                        *)
ValueAt(df, key) ==
  At(df, CHOOSE i \in 1..Len(df.rows) : KeyOf(df, i) = key, target_col)

C6_DerivedColumns ==
  AfterDerive
    => /\ \A c \in {col_orig, col_interp, DIFF, SQ_ERROR, ABS_ERROR} :
            HasCol(merged, c)
       /\ \A i \in 1..Len(merged.rows) :
            /\ Len(merged.rows[i]) = Len(merged.columns)
            /\ At(merged, i, DIFF)
                 = At(merged, i, col_interp) - At(merged, i, col_orig)
            /\ At(merged, i, SQ_ERROR)
                 = At(merged, i, DIFF) * At(merged, i, DIFF)
            /\ At(merged, i, ABS_ERROR) >= 0
            /\ At(merged, i, ABS_ERROR) \in
                 {At(merged, i, DIFF), 0 - At(merged, i, DIFF)}
       /\ (UniqueKeys(df_orig) /\ UniqueKeys(df_interp))
            => \A i \in 1..Len(merged.rows) :
                 At(merged, i, DIFF)
                   = ValueAt(df_interp, KeyOf(merged, i))
                     - ValueAt(df_orig, KeyOf(merged, i))

(* the first scenario of the specification: reference 10, reconstruction   *)
(* 12, difference +2, squared error 4, absolute error 2                    *)
C6_Witness ==
  /\ AfterDerive
  /\ \E i \in 1..Len(merged.rows) :
       /\ ValueAt(df_orig, KeyOf(merged, i)) = 10
       /\ ValueAt(df_interp, KeyOf(merged, i)) = 12
       /\ At(merged, i, DIFF) = 2
       /\ At(merged, i, SQ_ERROR) = 4
       /\ At(merged, i, ABS_ERROR) = 2

-----------------------------------------------------------------------------
(* C7: the summary is computed over at least one aligned row; mse is the   *)
(* sum of sq_error over the number of aligned rows, mean_bias the sum of   *)
(* diff over the number of aligned rows, and rmse the square root of mse   *)
(* to the precision of the root (rmse^2 <= mse < (rmse + precision)^2,     *)
(* hence exact when mse is the square of a multiple of the precision);     *)
(* when the two values agree on every aligned row, all three are 0.        *)
RECURSIVE Total(_, _)
Total(f, n) == IF n = 0 THEN 0 ELSE f[n] + Total(f, n - 1)

C7_Summary ==
  /\ pc = "summarize" => Len(merged.rows) >= 1
  /\ summary # <<>>
       => LET n == Len(merged.rows)
              m == summary[1].mse
              r == summary[1].rmse
              b == summary[1].mean_bias
          IN /\ n >= 1
             /\ m.den = n /\ m.num = Total(Column(merged, SQ_ERROR), n)
             /\ b.den = n /\ b.num = Total(Column(merged, DIFF), n)
             /\ r.den > 0 /\ r.num >= 0
             /\ r.num * r.num * m.den <= m.num * r.den * r.den
             /\ m.num * r.den * r.den < (r.num + 1) * (r.num + 1) * m.den
             /\ (\A i \in 1..n :
                   At(merged, i, col_interp) = At(merged, i, col_orig))
                  => m.num = 0 /\ r.num = 0 /\ b.num = 0

(* two aligned rows or more, equal values on each: mse, rmse and bias 0 *)
C7_Witness ==
  /\ summary # <<>>
  /\ Len(merged.rows) >= 2
  /\ \A i \in 1..Len(merged.rows) :
       At(merged, i, col_interp) = At(merged, i, col_orig)
  /\ \E i \in 1..Len(merged.rows) : At(merged, i, col_orig) # 0
  /\ summary[1].mse.num = 0

-----------------------------------------------------------------------------
(* C8 as claimed: whatever error ends the run, no summary, no ranking and  *)
(* no grid has been produced or shown before it.                           *)
ErrorEnd ==
  pc \in {"return_missing", "return_empty", "except_FileNotFoundError",
          "except_Exception"}

NothingProduced ==
  /\ summary = <<>> /\ top = <<>>
  /\ grid_interp = <<>> /\ grid_orig = <<>> /\ grid_error = <<>>
  /\ ~Said("summary") /\ ~Said("top_errors") /\ ~Said("window")

C8_NoPartialResults == ErrorEnd => NothingProduced

(* C8 as amended: every error ends the run and nothing is done twice.     *)
(* A run that reported missing columns, no matching coordinates, a         *)
(* missing file or a failure of read_csv has produced no summary, no       *)
(* ranking and no grid.  A run that ends in an exception of the grid       *)
(* construction or of the viewer has already reported the summary and the  *)
(* ranking; it never shows the window, and the grids exist only when it    *)
(* is the viewer that failed.                                              *)
NoRepeat(s) == \A i, j \in 1..Len(s) : s[i] = s[j] => i = j

C8_ErrorsAreTerminal ==
  /\ NoRepeat(out)
  /\ ErrorEnd => ~ENABLED Next /\ ~Said("window")
  /\ (\/ Said("missing_columns")
      \/ Said("no_matching_coordinates")
      \/ Said("file_not_found")
      \/ raised_at = "read_csv") => ErrorEnd /\ NothingProduced
  /\ raised_at \in {"pivot", "viewer"}
       => /\ pc = "except_Exception"
          /\ summary # <<>> /\ top # <<>>
          /\ Said("summary") /\ Said("top_errors")
  /\ raised_at = "pivot"
       => grid_interp = <<>> /\ grid_orig = <<>> /\ grid_error = <<>>
  /\ raised_at = "viewer"
       => grid_interp # <<>> /\ grid_orig # <<>> /\ grid_error # <<>>

(* a repeated key stops the grid construction after the summary and the   *)
(* ranking were reported                                                   *)
C8_Witness ==
  /\ pc = "except_Exception"
  /\ raised_at = "pivot"
  /\ ~UniqueKeys(merged)
  /\ Said("summary")

-----------------------------------------------------------------------------
(* C9: the three grids are indexed alike: the rows are the distinct Phi    *)
(* values of the aligned rows in ascending order, the columns the          *)
(* distinct Theta values in ascending order; the cell of a key with an     *)
(* aligned row holds that row's interpolated value, original value and     *)
(* abs_error in the three grids, the cell of a key without one is NaN in   *)
(* all three, and on every other cell the error grid is the absolute       *)
(* difference of the two others.                                           *)
Ascending(s) == \A i, j \in 1..Len(s) : i < j => s[i] < s[j]

RowsAt(a, b) == {i \in 1..Len(merged.rows) : KeyOf(merged, i) = <<a, b>>}

C9_GridsCoordinateConsistent ==
  GridsReady
    => LET gi == grid_interp[1]
           go == grid_orig[1]
           ge == grid_error[1]
       IN /\ Ascending(gi.index) /\ Range(gi.index) = PhiValues
          /\ Ascending(gi.columns) /\ Range(gi.columns) = ThetaValues
          /\ go.index = gi.index /\ go.columns = gi.columns
          /\ ge.index = gi.index /\ ge.columns = gi.columns
          /\ \A r \in 1..Len(gi.index), k \in 1..Len(gi.columns) :
               /\ \A i \in RowsAt(gi.index[r], gi.columns[k]) :
                    /\ gi.values[r][k] = Num(At(merged, i, col_interp))
                    /\ go.values[r][k] = Num(At(merged, i, col_orig))
                    /\ ge.values[r][k] = Num(At(merged, i, ABS_ERROR))
               /\ RowsAt(gi.index[r], gi.columns[k]) = {}
                    => /\ gi.values[r][k] = NaN
                       /\ go.values[r][k] = NaN
                       /\ ge.values[r][k] = NaN
               /\ ~ge.values[r][k].nan
                    => /\ ~gi.values[r][k].nan /\ ~go.values[r][k].nan
                       /\ ge.values[r][k].val
                            = Abs(gi.values[r][k].val - go.values[r][k].val)

(* a 2 x 2 grid with a key that has no aligned row, and a cell where the  *)
(* two patterns differ                                                     *)
C9_Witness ==
  /\ GridsReady
  /\ Shape(grid_error[1]) = <<2, 2>>
  /\ \E r \in 1..2, k \in 1..2 : grid_error[1].values[r][k] = NaN
  /\ \E r \in 1..2, k \in 1..2 :
       /\ ~grid_error[1].values[r][k].nan
       /\ grid_error[1].values[r][k].val > 0
       /\ grid_interp[1].values[r][k].val < grid_orig[1].values[r][k].val

-----------------------------------------------------------------------------
(* C10 as claimed: once a table exists, no later step changes it.          *)
C10_NoTableMutated ==
  [][/\ df_interp # NoTable => df_interp' = df_interp
     /\ df_orig # NoTable => df_orig' = df_orig
     /\ merged # NoTable => merged' = merged
     /\ grid_interp # <<>> => grid_interp' = grid_interp]_vars

(* C10 as amended: no step changes the data of a table it received.  The  *)
(* rows of the two input tables never change and their names change only   *)
(* by being trimmed; the joined table keeps its rows and the columns it    *)
(* has, and only gains columns; the grids, once pivoted, keep the value    *)
(* of every cell.  (The trimming, the derived columns and the sorting of   *)
(* the reconstruction grid are done in place, on the table received.)      *)
IsPrefix(s, t) == Len(s) <= Len(t) /\ SubSeq(t, 1, Len(s)) = s

Extends(new, old) ==
  /\ IsPrefix(old.columns, new.columns)
  /\ Len(new.rows) = Len(old.rows)
  /\ \A i \in 1..Len(old.rows) : IsPrefix(old.rows[i], new.rows[i])

Trimmed(new, old) ==
  /\ new.rows = old.rows
  /\ Len(new.columns) = Len(old.columns)
  /\ \A j \in 1..Len(old.columns) :
       new.columns[j] \in {old.columns[j], Strip(old.columns[j])}

C10_DataNotMutated ==
  [][/\ df_interp # NoTable => Trimmed(df_interp', df_interp)
     /\ df_orig # NoTable => Trimmed(df_orig', df_orig)
     /\ merged # NoTable => Extends(merged', merged)
     /\ grid_interp # <<>> => grid_interp' = grid_interp
     /\ grid_orig # <<>> => grid_orig' = grid_orig
     /\ grid_error # <<>> => grid_error' = grid_error]_vars

(* a finished run in which the names of an input table were trimmed and   *)
(* the joined table gained its derived columns                             *)
C10_Witness ==
  /\ pc = "done"
  /\ df_interp.columns # file_interp.table.columns
  /\ df_interp.rows = file_interp.table.rows
  /\ HasCol(merged, DIFF)
  /\ Len(merged.columns) > Len(df_orig.columns) + 1

====
